---- MODULE Spec2Model ----
(***************************************************************************)
(* Arrow-exit puzzle (ArrowGame component): the exit predicate canExit,    *)
(* the canonical key serializeGrid, the bounded breadth-first solver       *)
(* findSolutionLimited, the random level generator                         *)
(* generateRandomLevelAsync and the component's handlers.                  *)
(*                                                                         *)
(* A grid is a 0-based array of rows, each a 0-based array of cells.  A    *)
(* cell is null (Null) or a segment {id, dir, len, head}.                  *)
(***************************************************************************)
EXTENDS Integers, Sequences, FiniteSets, TLC

\* ------------------------------------------------------------------ bounds
\* largest piece id of the grids the pure functions and the solver are given
MaxId == 2
\* largest state cap the solver is given
MaxCap == 4
\* largest maxLen the generator is given (the settings form allows up to 4)
MaxLen == 2
\* largest maxAttempts the generator is given (the program's default is 500)
MaxAttempts == 3
\* the component's maxAttempts: it stands for the default 500
DefaultMaxAttempts == 2
\* most hint timeouts pending at a time
MaxTimers == 1

\* ------------------------------------------------------------- grid model
Dirs == <<"U", "D", "L", "R">>

DirSet == {"U", "D", "L", "R"}

\* JavaScript null in a grid cell: it has none of a segment's fields, so reading one
\* (a TypeError in the program) is an evaluation error of the model
Null == [null |-> TRUE]

DIR_VECTORS(dir) ==
  CASE dir = "U" -> <<-1, 0>>
    [] dir = "D" -> <<1, 0>>
    [] dir = "L" -> <<0, -1>>
    [] dir = "R" -> <<0, 1>>

\* grid.length
Height(g) == Cardinality(DOMAIN g)

\* grid[0].length
Width(g) == Cardinality(DOMAIN g[0])

\* Array.from({length: rows}, () => Array(cols).fill(null))
EmptyGrid(rows, cols) == [r \in 0..(rows - 1) |-> [c \in 0..(cols - 1) |-> Null]]

\* the cells of an H x W grid in row-major order (the nested r, c loops)
RowMajor(H, W) == [i \in 1..(H * W) |-> <<(i - 1) \div W, (i - 1) % W>>]

cloneGrid(g) == [r \in DOMAIN g |-> [c \in DOMAIN g[r] |-> IF g[r][c] # Null THEN g[r][c] ELSE Null]]

\* a plausible slip: a shallow copy ([...g]) keeps the row arrays of g
cloneGridSharesRows(g) == Height(g) > 0

\* Line 8: does cloneGrid(g) hold a row array of g?  Both maps build new
\* arrays, so it never does.
cloneGridShares(g) == FALSE

allEmpty(g) == \A r \in DOMAIN g : \A c \in DOMAIN g[r] : g[r][c] = Null

\* ---------------------------------------------------------- exit predicate
\* the while loop of canExit, entered at (rr, cc)
RECURSIVE ExitWalk(_, _, _, _, _, _)
ExitWalk(g, id, rr, cc, dr, dc) ==
  IF rr >= 0 /\ rr < Height(g) /\ cc >= 0 /\ cc < Width(g)
  THEN IF g[rr][cc] # Null /\ g[rr][cc].id # id
       THEN FALSE
       ELSE ExitWalk(g, id, rr + dr, cc + dc, dr, dc)
  ELSE TRUE

\* a plausible slip: the head flag is not tested
canExitNoHeadTest(g, r, c) ==
  IF g[r][c] = Null THEN FALSE
  ELSE ExitWalk(g, g[r][c].id, r + DIR_VECTORS(g[r][c].dir)[1], c + DIR_VECTORS(g[r][c].dir)[2],
                DIR_VECTORS(g[r][c].dir)[1], DIR_VECTORS(g[r][c].dir)[2])

\* a plausible slip: any occupied cell blocks, the piece's own segments included
RECURSIVE ExitWalkAnyBlocks(_, _, _, _, _, _)
ExitWalkAnyBlocks(g, id, rr, cc, dr, dc) ==
  IF rr >= 0 /\ rr < Height(g) /\ cc >= 0 /\ cc < Width(g)
  THEN IF g[rr][cc] # Null
       THEN FALSE
       ELSE ExitWalkAnyBlocks(g, id, rr + dr, cc + dc, dr, dc)
  ELSE TRUE

canExitAnyBlocks(g, r, c) ==
  LET cell == g[r][c] IN
  IF cell = Null \/ ~cell.head THEN FALSE
  ELSE LET v == DIR_VECTORS(cell.dir) IN
       ExitWalkAnyBlocks(g, cell.id, r + v[1], c + v[2], v[1], v[2])

\* a plausible slip: the walk is an "if", so only the next cell is looked at
canExitOneStep(g, r, c) ==
  LET cell == g[r][c] IN
  IF cell = Null \/ ~cell.head THEN FALSE
  ELSE LET v == DIR_VECTORS(cell.dir)
           rr == r + v[1]
           cc == c + v[2]
       IN IF rr >= 0 /\ rr < Height(g) /\ cc >= 0 /\ cc < Width(g)
          THEN ~(g[rr][cc] # Null /\ g[rr][cc].id # cell.id)
          ELSE TRUE

\* a plausible slip: the id comparison is inverted (=== for !==)
RECURSIVE ExitWalkInverted(_, _, _, _, _, _)
ExitWalkInverted(g, id, rr, cc, dr, dc) ==
  IF rr >= 0 /\ rr < Height(g) /\ cc >= 0 /\ cc < Width(g)
  THEN IF g[rr][cc] # Null /\ g[rr][cc].id = id
       THEN FALSE
       ELSE ExitWalkInverted(g, id, rr + dr, cc + dc, dr, dc)
  ELSE TRUE

canExitInverted(g, r, c) ==
  LET cell == g[r][c] IN
  IF cell = Null \/ ~cell.head THEN FALSE
  ELSE LET v == DIR_VECTORS(cell.dir) IN
       ExitWalkInverted(g, cell.id, r + v[1], c + v[2], v[1], v[2])

canExit(g, r, c) ==
  LET cell == g[r][c] IN
  IF cell = Null \/ ~cell.head THEN FALSE
  ELSE LET v == DIR_VECTORS(cell.dir) IN
       ExitWalk(g, cell.id, r + v[1], c + v[2], v[1], v[2])

\* ------------------------------------------------------ state canonicalizer
\* Keys are strings; a string is modelled as the sequence of its characters.
DigitChar(d) == <<"0", "1", "2", "3", "4", "5", "6", "7", "8", "9">>[d + 1]

\* String(n) for an integer n >= 0: its decimal digits
RECURSIVE NumberToString(_)
NumberToString(n) ==
  IF n < 10 THEN <<DigitChar(n)>> ELSE NumberToString(n \div 10) \o <<DigitChar(n % 10)>>

\* Array.prototype.join of the strings parts[0..n-1] with separator sep
RECURSIVE JoinFrom(_, _, _)
JoinFrom(parts, sep, i) ==
  IF i >= Cardinality(DOMAIN parts) THEN <<>>
  ELSE (IF i = 0 THEN <<>> ELSE sep) \o parts[i] \o JoinFrom(parts, sep, i + 1)

Join(parts, sep) == JoinFrom(parts, sep, 0)

\* a plausible slip: the cells of a row are joined without a separator
serializeGridNoComma(g) ==
  Join([r \in DOMAIN g |->
          Join([c \in DOMAIN g[r] |-> NumberToString(IF g[r][c] # Null THEN g[r][c].id ELSE 0)],
               <<>>)],
       <<";">>)

serializeGrid(g) ==
  Join([r \in DOMAIN g |->
          Join([c \in DOMAIN g[r] |-> NumberToString(IF g[r][c] # Null THEN g[r][c].id ELSE 0)],
               <<",">>)],
       <<";">>)

\* ------------------------------------------------------------ bounded solver
\* findSolutionLimited's local cloneState
cloneState(g) == [r \in DOMAIN g |-> [c \in DOMAIN g[r] |-> IF g[r][c] # Null THEN g[r][c] ELSE Null]]

\* findSolutionLimited's local removeId
removeId(g, id) ==
  LET ng == cloneState(g) IN
  [r \in DOMAIN ng |-> [c \in DOMAIN ng[r] |->
     IF ng[r][c] # Null /\ ng[r][c].id = id THEN Null ELSE ng[r][c]]]

\* the heads of g that can exit, in row-major order (the "find removable heads" loops)
RemovableHeads(g) ==
  SelectSeq(RowMajor(Height(g), Width(g)),
            LAMBDA p : g[p[1]][p[2]] # Null /\ g[p[1]][p[2]].head /\ canExit(g, p[1], p[2]))

\* The solver's locals: queue (FIFO of {grid, seq}), visited (set of keys), states
\* (nodes dequeued), and where it stands: running its while loop or returned, with
\* found = FALSE for a null return and seq the returned move sequence otherwise.
SolverStart(startGrid, maxStates) ==
  [startGrid |-> startGrid, maxStates |-> maxStates,
   visited |-> {serializeGrid(startGrid)},
   queue |-> <<[grid |-> cloneState(startGrid), seq |-> <<>>]>>,
   states |-> 0, returned |-> FALSE, found |-> FALSE, seq |-> <<>>]

\* a plausible slip: the key of an enqueued grid is not added to visited
RECURSIVE ExpandNoMark(_, _, _, _)
ExpandNoMark(s, node, moves, i) ==
  IF i > Len(moves) THEN s
  ELSE LET r == moves[i][1]
           c == moves[i][2]
           id == node.grid[r][c].id
           ng == removeId(node.grid, id)
           key == serializeGrid(ng)
       IN IF key \in s.visited
          THEN ExpandNoMark(s, node, moves, i + 1)
          ELSE ExpandNoMark([s EXCEPT !.queue = Append(@, [grid |-> ng, seq |-> Append(node.seq, <<r, c>>)])],
                            node, moves, i + 1)

\* a plausible slip: a successor's seq holds its own move without the moves before it
RECURSIVE ExpandDropsPrefix(_, _, _, _)
ExpandDropsPrefix(s, node, moves, i) ==
  IF i > Len(moves) THEN s
  ELSE LET r == moves[i][1]
           c == moves[i][2]
           id == node.grid[r][c].id
           ng == removeId(node.grid, id)
           key == serializeGrid(ng)
       IN IF key \in s.visited
          THEN ExpandDropsPrefix(s, node, moves, i + 1)
          ELSE ExpandDropsPrefix([s EXCEPT !.visited = @ \cup {key},
                                           !.queue = Append(@, [grid |-> ng, seq |-> <<<<r, c>>>>])],
                                 node, moves, i + 1)

\* the "for (const [r, c] of moves)" loop, from the i-th move on
RECURSIVE Expand(_, _, _, _)
Expand(s, node, moves, i) ==
  IF i > Len(moves) THEN s
  ELSE LET r == moves[i][1]
           c == moves[i][2]
           id == node.grid[r][c].id
           ng == removeId(node.grid, id)
           key == serializeGrid(ng)
       IN IF key \in s.visited
          THEN Expand(s, node, moves, i + 1)
          ELSE Expand([s EXCEPT !.visited = @ \cup {key},
                                !.queue = Append(@, [grid |-> ng, seq |-> Append(node.seq, <<r, c>>)])],
                      node, moves, i + 1)

\* a plausible slip: the cap is tested before the counter is incremented
SolverIterateLateCount(s) ==
  IF Len(s.queue) = 0
  THEN [s EXCEPT !.returned = TRUE, !.found = FALSE]
  ELSE LET node == Head(s.queue)
           t == [s EXCEPT !.queue = Tail(@), !.states = @ + 1]
       IN IF s.states > s.maxStates THEN [t EXCEPT !.returned = TRUE, !.found = FALSE]
          ELSE IF allEmpty(node.grid) THEN [t EXCEPT !.returned = TRUE, !.found = TRUE, !.seq = node.seq]
          ELSE Expand(t, node, RemovableHeads(node.grid), 1)

\* a plausible slip: the queue is used as a stack (pop() for shift())
SolverIteratePop(s) ==
  IF Len(s.queue) = 0
  THEN [s EXCEPT !.returned = TRUE, !.found = FALSE]
  ELSE LET node == s.queue[Len(s.queue)]
           t == [s EXCEPT !.queue = SubSeq(@, 1, Len(@) - 1), !.states = @ + 1]
       IN IF t.states > t.maxStates THEN [t EXCEPT !.returned = TRUE, !.found = FALSE]
          ELSE IF allEmpty(node.grid) THEN [t EXCEPT !.returned = TRUE, !.found = TRUE, !.seq = node.seq]
          ELSE Expand(t, node, RemovableHeads(node.grid), 1)

\* one pass of "while (queue.length > 0)", or the return that follows the loop
SolverIterate(s) ==
  IF Len(s.queue) = 0
  THEN [s EXCEPT !.returned = TRUE, !.found = FALSE]
  ELSE LET node == Head(s.queue)
           t == [s EXCEPT !.queue = Tail(@), !.states = @ + 1]
       IN IF t.states > t.maxStates THEN [t EXCEPT !.returned = TRUE, !.found = FALSE]
          ELSE IF allEmpty(node.grid) THEN [t EXCEPT !.returned = TRUE, !.found = TRUE, !.seq = node.seq]
          ELSE Expand(t, node, RemovableHeads(node.grid), 1)

\* the whole call: iterate until it returns
RECURSIVE SolverRun(_)
SolverRun(s) == IF s.returned THEN s ELSE SolverRun(SolverIterate(s))

findSolutionLimited(startGrid, maxStates) == SolverRun(SolverStart(startGrid, maxStates))

\* ------------------------------------------------------------ level generator
\* the cap generateRandomLevelAsync gives the solver
GenMaxStates == 20000

yieldEvery == 20

\* Math.random() and density are in hundredths.  Math.random() is in [0, 1): one
\* value below and one above every density above 0 that the model uses.
RandomValues == {0, 50}

\* the densities the generator is given: 0 and the component's default 0.32
Densities == {0, 32}

InBounds(rows, cols, rr, cc) == ~(rr < 0 \/ rr >= rows \/ cc < 0 \/ cc >= cols)

\* a plausible slip: every segment of a piece is flagged as its head
PlacePieceAllHeads(a, st, r, c, dir, len) ==
  LET v == DIR_VECTORS(dir)
      ok == \A k \in 0..(len - 1) :
              /\ InBounds(a.rows, a.cols, r - v[1] * k, c - v[2] * k)
              /\ st.g[r - v[1] * k][c - v[2] * k] = Null
  IN IF ~ok THEN st
     ELSE [g |-> [rr \in DOMAIN st.g |-> [cc \in DOMAIN st.g[rr] |->
                    IF \E k \in 0..(len - 1) : rr = r - v[1] * k /\ cc = c - v[2] * k
                    THEN [id |-> st.idCounter, dir |-> dir, len |-> len, head |-> TRUE]
                    ELSE st.g[rr][cc]]],
           idCounter |-> st.idCounter + 1]

\* Lines 46-67: the piece with head (r, c), direction dir and length len, laid
\* backward from its head; st = {g, idCounter} is left as it is when a cell the
\* piece needs is out of bounds or occupied.
PlacePiece(a, st, r, c, dir, len) ==
  LET v == DIR_VECTORS(dir)
      ok == \A k \in 0..(len - 1) :
              /\ InBounds(a.rows, a.cols, r - v[1] * k, c - v[2] * k)
              /\ st.g[r - v[1] * k][c - v[2] * k] = Null
  IN IF ~ok THEN st
     ELSE [g |-> [rr \in DOMAIN st.g |-> [cc \in DOMAIN st.g[rr] |->
                    IF \E k \in 0..(len - 1) : rr = r - v[1] * k /\ cc = c - v[2] * k
                    THEN [id |-> st.idCounter, dir |-> dir, len |-> len,
                          head |-> (rr = r /\ cc = c)]
                    ELSE st.g[rr][cc]]],
           idCounter |-> st.idCounter + 1]

\* Lines 42-67: what one pass of the inner loop at (r, c) can make of st, over
\* the values Math.random() can return; a.dirs is the set of directions the
\* draws of line 44 range over in this run
CellOutcomes(a, st, r, c) ==
  IF st.g[r][c] # Null THEN {st}
  ELSE UNION {IF u >= a.density THEN {st}
              ELSE {PlacePiece(a, st, r, c, dir, len) : dir \in a.dirs, len \in 1..a.maxLen}
              : u \in RandomValues}

\* Lines 40-69: the scan from the i-th cell on, in row-major order, of every st of S
RECURSIVE ScanFrom(_, _, _)
ScanFrom(a, S, i) ==
  IF i > a.rows * a.cols THEN S
  ELSE ScanFrom(a,
                UNION {CellOutcomes(a, st, RowMajor(a.rows, a.cols)[i][1], RowMajor(a.rows, a.cols)[i][2])
                       : st \in S},
                i + 1)

\* Lines 39-69: the candidates {g, idCounter} one attempt can build
Candidates(a, idCounter) ==
  ScanFrom(a, {[g |-> EmptyGrid(a.rows, a.cols), idCounter |-> idCounter]}, 1)

hasArrow(g) == \E r \in DOMAIN g : \E c \in DOMAIN g[r] : g[r][c] # Null

hasImmediateExit(g) ==
  hasArrow(g) /\ \E r \in DOMAIN g : \E c \in DOMAIN g[r] :
                   g[r][c] # Null /\ g[r][c].head /\ canExit(g, r, c)

\* a plausible slip: a candidate is accepted as soon as it holds an arrow
AcceptedAnyArrow(g) == hasArrow(g)

\* a plausible slip: a candidate with an exitable head is returned without the search
AcceptedNoSearch(g) == hasArrow(g) /\ hasImmediateExit(g)

\* Lines 70-75: the candidate is returned
Accepted(g) ==
  hasArrow(g) /\ hasImmediateExit(g) /\ findSolutionLimited(g, GenMaxStates).found

\* Lines 78-84: the fallback layout
Fallback(a) ==
  [r \in 0..(a.rows - 1) |-> [c \in 0..(a.cols - 1) |->
     IF a.rows >= 1 /\ a.cols >= 2 /\ r = 0 /\ c = 0
     THEN [id |-> 1, dir |-> "R", len |-> 1, head |-> TRUE]
     ELSE IF a.rows >= 1 /\ a.cols >= 2 /\ a.cols > 1 /\ r = 0 /\ c = 1
     THEN [id |-> 1, dir |-> "R", len |-> 1, head |-> FALSE]
     ELSE Null]]

\* A generateRandomLevelAsync call: its arguments a, its locals idCounter and
\* attempt, where it stands (awaiting the timeout of line 76, returned at line 74
\* or at line 84) and the grid it returned.
GenAt(a, pc, attempt, idCounter, ret) ==
  [a |-> a, pc |-> pc, attempt |-> attempt, idCounter |-> idCounter, ret |-> ret]

\* a plausible slip: the loop test is attempt <= maxAttempts
RECURSIVE RunLoopOneMore(_, _, _)
RunLoopOneMore(a, attempt, idCounter) ==
  IF ~(attempt <= a.maxAttempts)
  THEN {GenAt(a, "return84", attempt, idCounter, Fallback(a))}
  ELSE LET cands == Candidates(a, idCounter)
           good == {st \in cands : Accepted(st.g)}
           rejectedIds == {st.idCounter : st \in cands \ good}
       IN {GenAt(a, "return74", attempt, st.idCounter, st.g) : st \in good}
            \cup UNION {IF attempt % yieldEvery = 0
                        THEN {GenAt(a, "await76", attempt, idc, Null)}
                        ELSE RunLoopOneMore(a, attempt + 1, idc)
                        : idc \in rejectedIds}

\* Lines 38-84: the for loop entered at its test with these locals, run up to the
\* next await or return
RECURSIVE RunLoop(_, _, _)
RunLoop(a, attempt, idCounter) ==
  IF ~(attempt < a.maxAttempts)
  THEN {GenAt(a, "return84", attempt, idCounter, Fallback(a))}
  ELSE LET cands == Candidates(a, idCounter)
           good == {st \in cands : Accepted(st.g)}
           rejectedIds == {st.idCounter : st \in cands \ good}
       IN {GenAt(a, "return74", attempt, st.idCounter, st.g) : st \in good}
            \cup UNION {IF attempt % yieldEvery = 0
                        THEN {GenAt(a, "await76", attempt, idc, Null)}
                        ELSE RunLoop(a, attempt + 1, idc)
                        : idc \in rejectedIds}

\* Lines 35-37: the call, run up to its first await or its return
GenCallOutcomes(a) == RunLoop(a, 0, 1)

\* Line 76: the timeout fires and the loop goes on with attempt++
GenResumeOutcomes(gn) == RunLoop(gn.a, gn.attempt + 1, gn.idCounter)

GenReturned(gn) == gn.pc \in {"return74", "return84"}

\* ------------------------------------------------------------------- state
VARIABLES
  pgrid,    \* the grid a pure function is called with
  pgrid2,   \* the second grid of a key comparison
  pcall,    \* the last call of a pure function: its name, arguments and return value
  solver,   \* the locals of the running findSolutionLimited call
  gen,      \* the generateRandomLevelAsync call in progress, or the last one
  settings,     \* ArrowGame's rows, cols, density, maxLen
  initialGrid,  \* ArrowGame's retained initial grid
  grid,         \* ArrowGame's working grid
  hintCell,     \* ArrowGame's highlighted cell, <<r, c>> or NoHint
  generating,   \* ArrowGame's generating flag
  mounted,      \* the mount effect has run
  timers,       \* pending setTimeout(() => setHintCell(null)) callbacks
  shared,       \* grid and initialGrid hold the same row arrays
  genThen,      \* the continuation that awaits the generator: "effect", "newRandom" or "none"
  last          \* the last handler that ran, with what it reported

pureVars == <<pgrid, pgrid2, pcall>>

appVars == <<settings, initialGrid, grid, hintCell, generating, mounted, timers, shared, genThen, last>>

vars == <<pgrid, pgrid2, pcall, solver, gen, settings, initialGrid, grid, hintCell, generating,
          mounted, timers, shared, genThen, last>>

\* hintCell = null
NoHint == <<>>

\* The settings the component is run with: the smallest board its form allows
\* (min 2 rows and 2 columns) and its default density 0.32 and maxLen 2.
AppSettings == [rows |-> 2, cols |-> 2, density |-> 32, maxLen |-> 2]

\* the directions the component's generator runs draw
AppDirs == {"L", "R"}

\* the useState initial values
AppConstructed ==
  /\ settings = AppSettings
  /\ initialGrid = EmptyGrid(AppSettings.rows, AppSettings.cols)
  /\ grid = cloneGrid(EmptyGrid(AppSettings.rows, AppSettings.cols))
  /\ hintCell = NoHint
  /\ generating = FALSE
  /\ mounted = FALSE
  /\ timers = 0
  /\ shared = cloneGridShares(initialGrid)
  /\ genThen = "none"
  /\ last = [op |-> "none"]

NoGen == [pc |-> "idle"]

NoCall == [op |-> "none"]

NoSolver == [returned |-> TRUE, found |-> FALSE]

\* the grid shapes (rows, cols) the exit predicate is called on
ExitShapes == {<<1, 3>>, <<3, 1>>, <<2, 2>>}

\* the grid shapes the solver is started on
SolverShapes == {<<1, 3>>, <<3, 1>>, <<2, 2>>}

\* the grid shapes of the key comparison
KeyShapes == {<<1, 2>>, <<2, 2>>}

\* every segment with an id of ids: any direction, head or not
Segments(ids) == [id : ids, dir : DirSet, len : {1}, head : BOOLEAN]

\* every grid of shape sh whose cells are null or among cells
GridsOf(sh, cells) == [0..(sh[1] - 1) -> [0..(sh[2] - 1) -> cells \cup {Null}]]

\* ----------------------------------------------- calls of the exit predicate
InitCanExit ==
  /\ \E sh \in ExitShapes : pgrid \in GridsOf(sh, Segments(1..MaxId))
  /\ pgrid2 = pgrid
  /\ pcall = NoCall
  /\ solver = NoSolver
  /\ gen = NoGen
  /\ AppConstructed

CallCanExit ==
  \E r \in DOMAIN pgrid : \E c \in DOMAIN pgrid[r] :
    /\ pcall' = [op |-> "canExit", r |-> r, c |-> c, ret |-> canExit(pgrid, r, c)]
    /\ UNCHANGED <<pgrid, pgrid2, solver, gen, appVars>>

NextCanExit == CallCanExit

SpecCanExit == InitCanExit /\ [][NextCanExit]_vars

\* ------------------------------------------------------ runs of the solver
InitSolver ==
  /\ \E sh \in SolverShapes : pgrid \in GridsOf(sh, Segments(1..MaxId))
  /\ pgrid2 = pgrid
  /\ pcall = NoCall
  /\ \E cap \in 0..MaxCap : solver = SolverStart(pgrid, cap)
  /\ gen = NoGen
  /\ AppConstructed

SolverStep ==
  /\ ~solver.returned
  /\ solver' = SolverIterate(solver)
  /\ UNCHANGED <<pureVars, gen, appVars>>

NextSolver == SolverStep

SpecSolver == InitSolver /\ [][NextSolver]_vars

\* ------------------------------------------- calls of the state canonicalizer
\* the piece ids of the compared grids: two whose decimal digits can run together
KeyIds == {1, 11}

\* two segments of each id that differ in direction, length and head flag
KeySegments ==
  {[id |-> i, dir |-> "R", len |-> 1, head |-> TRUE] : i \in KeyIds}
    \cup {[id |-> i, dir |-> "U", len |-> 2, head |-> FALSE] : i \in KeyIds}

InitKey ==
  /\ \E sh \in KeyShapes :
       /\ pgrid \in GridsOf(sh, KeySegments)
       /\ pgrid2 \in GridsOf(sh, KeySegments)
  /\ pcall = NoCall
  /\ solver = NoSolver
  /\ gen = NoGen
  /\ AppConstructed

CallSerializeGrid ==
  /\ pcall' = [op |-> "serializeGrid", key |-> serializeGrid(pgrid), key2 |-> serializeGrid(pgrid2)]
  /\ UNCHANGED <<pgrid, pgrid2, solver, gen, appVars>>

NextKey == CallSerializeGrid

SpecKey == InitKey /\ [][NextKey]_vars

\* ---------------------------------------------------- runs of the generator
\* the grid shapes (rows, cols) the generator is called with
GenShapes == {<<2, 2>>}

GenArgs ==
  {[rows |-> sh[1], cols |-> sh[2], density |-> d, maxLen |-> ml, maxAttempts |-> ma,
    dirs |-> {Dirs[i] : i \in DOMAIN Dirs}] :
     sh \in GenShapes, d \in Densities, ml \in 1..MaxLen, ma \in 0..MaxAttempts}

InitGen ==
  /\ pgrid = EmptyGrid(1, 1)
  /\ pgrid2 = pgrid
  /\ pcall = NoCall
  /\ solver = NoSolver
  /\ \E a \in GenArgs : gen = [pc |-> "called", a |-> a]
  /\ AppConstructed

GenCall ==
  /\ gen.pc = "called"
  /\ gen' \in GenCallOutcomes(gen.a)
  /\ UNCHANGED <<pureVars, solver, appVars>>

GenResume ==
  /\ gen.pc = "await76"
  /\ gen' \in GenResumeOutcomes(gen)
  /\ UNCHANGED <<pureVars, solver, appVars>>

NextGen == GenCall \/ GenResume

SpecGen == InitGen /\ [][NextGen]_vars

\* ------------------------------------------------------ the ArrowGame component
\* the arguments newRandom and the mount effect call the generator with
AppGenArgs(st) ==
  [rows |-> st.rows, cols |-> st.cols, density |-> st.density, maxLen |-> st.maxLen,
   maxAttempts |-> DefaultMaxAttempts, dirs |-> AppDirs]

\* GenCallOutcomes and GenResumeOutcomes of the component's calls, computed once
GenCallMemo == [a \in {AppGenArgs(AppSettings)} |-> GenCallOutcomes(a)]

GenResumeMemo ==
  [a \in {AppGenArgs(AppSettings)}, attempt \in {k \in 0..(DefaultMaxAttempts - 1) : k % yieldEvery = 0},
   idCounter \in 1..(1 + AppSettings.rows * AppSettings.cols) |->
     RunLoop(a, attempt + 1, idCounter)]

\* Lines 158-165 and 174-180: the generator call of caller ("effect" or
\* "newRandom") has run up to o.  Returned: the caller's continuation stores the
\* level and clears the generating flag, and the call's locals are gone;
\* awaiting: the flag stays set.
GenOutcome(caller, o) ==
  /\ IF GenReturned(o)
     THEN /\ gen' = NoGen
          /\ initialGrid' = cloneGrid(o.ret)
          /\ grid' = cloneGrid(o.ret)
          /\ shared' = cloneGridShares(o.ret)
          /\ hintCell' = IF caller = "newRandom" THEN NoHint ELSE hintCell
          /\ generating' = FALSE
          /\ genThen' = "none"
     ELSE /\ gen' = o
          /\ generating' = TRUE
          /\ genThen' = caller
          /\ UNCHANGED <<initialGrid, grid, hintCell, shared>>

\* a plausible slip: the buttons are left enabled while a level is generated
ControlsAlwaysEnabled == FALSE

\* Lines 224-226 and 234: disabled={generating} on Reset, Hint, New Random and
\* Apply & New
ControlsDisabled == generating

\* Lines 169-184: the mount effect
MountEffect ==
  /\ ~mounted
  /\ mounted' = TRUE
  /\ \E o \in GenCallMemo[AppGenArgs(settings)] : GenOutcome("effect", o)
  /\ last' = [op |-> "effect", flag |-> FALSE]
  /\ UNCHANGED <<pureVars, solver, settings, timers>>

\* Lines 155-167: newRandom, behind buttons that are disabled while generating
NewRandom ==
  /\ mounted /\ ~ControlsDisabled
  /\ \E o \in GenCallMemo[AppGenArgs(settings)] : GenOutcome("newRandom", o)
  /\ last' = [op |-> "newRandom", flag |-> FALSE]
  /\ UNCHANGED <<pureVars, solver, settings, mounted, timers>>

\* Line 76: the timeout the generator awaits fires and the call runs on
GenTimeout ==
  /\ gen.pc = "await76"
  /\ \E o \in GenResumeMemo[gen.a, gen.attempt, gen.idCounter] : GenOutcome(genThen, o)
  /\ UNCHANGED <<pureVars, solver, settings, mounted, timers, last>>

\* Lines 150-153: resetLevel, behind a button that is disabled while generating.
\* last.flag: the working grid differed from the initial grid.
ResetLevel ==
  /\ mounted /\ ~ControlsDisabled
  /\ grid' = cloneGrid(initialGrid)
  /\ shared' = cloneGridShares(initialGrid)
  /\ hintCell' = NoHint
  /\ last' = [op |-> "resetLevel", flag |-> (grid # initialGrid)]
  /\ UNCHANGED <<pureVars, solver, gen, settings, initialGrid, generating, mounted, timers, genThen>>

\* a plausible slip: only the head's own cell is emptied
ClickRemoveHeadOnly(g, id) ==
  LET ng == cloneGrid(g) IN
  [rr \in DOMAIN ng |-> [cc \in DOMAIN ng[rr] |->
     IF ng[rr][cc] # Null /\ ng[rr][cc].id = id /\ ng[rr][cc].head THEN Null ELSE ng[rr][cc]]]

\* Lines 191-196: the clone of g with every cell of piece id emptied
ClickRemove(g, id) ==
  LET ng == cloneGrid(g) IN
  [rr \in DOMAIN ng |-> [cc \in DOMAIN ng[rr] |->
     IF ng[rr][cc] # Null /\ ng[rr][cc].id = id THEN Null ELSE ng[rr][cc]]]

\* Lines 186-203: handleClick(r, c).  last.flag: the click removed a piece.
HandleClick(r, c) ==
  /\ mounted
  /\ IF grid[r][c] = Null \/ ~grid[r][c].head
     THEN /\ last' = [op |-> "handleClick", flag |-> FALSE]
          /\ UNCHANGED <<initialGrid, grid, hintCell, timers, shared>>
     ELSE IF canExit(grid, r, c)
     THEN /\ grid' = ClickRemove(grid, grid[r][c].id)
          \* the writes to ng land in every grid that holds ng's row arrays
          /\ initialGrid' = IF shared /\ cloneGridShares(grid) THEN grid' ELSE initialGrid
          /\ shared' = (shared /\ cloneGridShares(grid))
          /\ hintCell' = NoHint
          /\ last' = [op |-> "handleClick", flag |-> TRUE]
          /\ UNCHANGED timers
     ELSE /\ timers < MaxTimers
          /\ hintCell' = <<r, c>>
          /\ timers' = timers + 1
          /\ last' = [op |-> "handleClick", flag |-> FALSE]
          /\ UNCHANGED <<initialGrid, grid, shared>>
  /\ UNCHANGED <<pureVars, solver, gen, settings, generating, mounted, genThen>>

\* a plausible slip: the scan takes heads without asking canExit
HintScanAnyHead(g) ==
  SelectSeq(RowMajor(Height(g), Width(g)),
            LAMBDA p : g[p[1]][p[2]] # Null /\ g[p[1]][p[2]].head)

\* Lines 206-214: the heads of g that can exit, in row-major order
HintScan(g) ==
  SelectSeq(RowMajor(Height(g), Width(g)),
            LAMBDA p : g[p[1]][p[2]] # Null /\ g[p[1]][p[2]].head /\ canExit(g, p[1], p[2]))

\* Lines 205-217: giveHint, behind a button that is disabled while generating.
\* last.flag: the alert was shown.
GiveHint ==
  /\ mounted /\ ~ControlsDisabled
  /\ IF Len(HintScan(grid)) > 0
     THEN /\ timers < MaxTimers
          /\ hintCell' = HintScan(grid)[1]
          /\ timers' = timers + 1
          /\ last' = [op |-> "giveHint", flag |-> FALSE]
     ELSE /\ hintCell' = NoHint
          /\ last' = [op |-> "giveHint", flag |-> TRUE]
          /\ UNCHANGED timers
  /\ UNCHANGED <<pureVars, solver, gen, settings, initialGrid, grid, generating, mounted, shared, genThen>>

\* Lines 202 and 210: a hint timeout fires
HintTimeout ==
  /\ timers > 0
  /\ timers' = timers - 1
  /\ hintCell' = NoHint
  /\ UNCHANGED <<pureVars, solver, gen, settings, initialGrid, grid, generating, mounted, shared, genThen, last>>

Init ==
  /\ pgrid = EmptyGrid(1, 1)
  /\ pgrid2 = pgrid
  /\ pcall = NoCall
  /\ solver = NoSolver
  /\ gen = NoGen
  /\ AppConstructed

Next ==
  \/ MountEffect
  \/ NewRandom
  \/ GenTimeout
  \/ ResetLevel
  \/ \E r \in DOMAIN grid : \E c \in DOMAIN grid[r] : HandleClick(r, c)
  \/ GiveHint
  \/ HintTimeout

Spec == Init /\ [][Next]_vars

\* =================================================================== claims
\* the piece id a cell holds, 0 standing for empty
IdAt(g, r, c) == IF g[r][c] = Null THEN 0 ELSE g[r][c].id

\* the in-bounds cells beyond (r, c) towards the board edge that direction dir names
CellsAhead(g, r, c, dir) ==
  {p \in (DOMAIN g) \X (DOMAIN g[0]) :
     \/ dir = "U" /\ p[2] = c /\ p[1] < r
     \/ dir = "D" /\ p[2] = c /\ p[1] > r
     \/ dir = "L" /\ p[1] = r /\ p[2] < c
     \/ dir = "R" /\ p[1] = r /\ p[2] > c}

\* every cell ahead of the head at (r, c) is empty or a segment of the head's piece
PathClear(g, r, c) ==
  \A p \in CellsAhead(g, r, c, g[r][c].dir) : IdAt(g, p[1], p[2]) \in {0, g[r][c].id}

IsHeadAt(g, r, c) == g[r][c] # Null /\ g[r][c].head

\* C1: for every grid and every cell holding a head, canExit returns true if and
\* only if every in-bounds cell from the head to the board edge along the piece's
\* direction is empty or holds a segment with the head's piece id.
C1_CanExitIffPathClear ==
  (pcall.op = "canExit" /\ IsHeadAt(pgrid, pcall.r, pcall.c))
    => (pcall.ret <=> PathClear(pgrid, pcall.r, pcall.c))

\* C1's case: a head whose path runs over a segment of its own piece, and exits
C1_Witness ==
  /\ pcall.op = "canExit"
  /\ IsHeadAt(pgrid, pcall.r, pcall.c)
  /\ pcall.ret = TRUE
  /\ \E p \in CellsAhead(pgrid, pcall.r, pcall.c, pgrid[pcall.r][pcall.c].dir) :
       IdAt(pgrid, p[1], p[2]) = pgrid[pcall.r][pcall.c].id

\* C9: a call of canExit on an in-bounds cell that is empty or holds a non-head
\* segment returns false, raises no error and leaves the grid as it was.
C9_NonHeadReturnsFalse ==
  [][(pcall'.op = "canExit" /\ ~IsHeadAt(pgrid, pcall'.r, pcall'.c))
       => (pcall'.ret = FALSE /\ pgrid' = pgrid)]_vars

\* C9's case: a non-head segment with nothing foreign between it and the edge,
\* answered false
C9_Witness ==
  /\ pcall.op = "canExit"
  /\ pgrid[pcall.r][pcall.c] # Null
  /\ ~pgrid[pcall.r][pcall.c].head
  /\ PathClear(pgrid, pcall.r, pcall.c)
  /\ pcall.ret = FALSE

\* C10: two grids of the same dimensions get the same key if and only if every
\* cell position holds the same piece id in both (0 for empty); direction, length
\* and head flag do not affect the key.
C10_SameKeyIffSameIds ==
  pcall.op = "serializeGrid"
    => ((pcall.key = pcall.key2)
          <=> \A r \in DOMAIN pgrid : \A c \in DOMAIN pgrid[r] : IdAt(pgrid, r, c) = IdAt(pgrid2, r, c))

\* C10's case: equal keys for two grids that differ in a segment's other fields,
\* with a two-digit id beside a one-digit id
C10_Witness ==
  /\ pcall.op = "serializeGrid"
  /\ pcall.key = pcall.key2
  /\ pgrid # pgrid2
  /\ \E r \in DOMAIN pgrid : IdAt(pgrid, r, 0) = 1 /\ IdAt(pgrid, r, 1) = 11

\* g with every cell of piece id emptied
WithoutPiece(g, id) ==
  [r \in DOMAIN g |-> [c \in DOMAIN g[r] |-> IF IdAt(g, r, c) = id THEN Null ELSE g[r][c]]]

\* replaying moves[i..] on g: each names a head whose path is clear just before
\* its piece is removed, and the grid ends all-empty
RECURSIVE ReplayClears(_, _, _)
ReplayClears(g, moves, i) ==
  IF i > Len(moves)
  THEN \A r \in DOMAIN g : \A c \in DOMAIN g[r] : g[r][c] = Null
  ELSE /\ IsHeadAt(g, moves[i][1], moves[i][2])
       /\ PathClear(g, moves[i][1], moves[i][2])
       /\ ReplayClears(WithoutPiece(g, IdAt(g, moves[i][1], moves[i][2])), moves, i + 1)

\* C2: solver soundness: a returned move sequence, replayed in order on the start
\* grid, removes at each step the piece of a head that could exit just before the
\* removal and ends in the all-empty grid.
C2_SolverSound ==
  (solver.returned /\ solver.found) => ReplayClears(solver.startGrid, solver.seq, 1)

\* C2's case: a returned solution of two moves whose second head was blocked at
\* the start
C2_Witness ==
  /\ solver.returned /\ solver.found
  /\ Len(solver.seq) = 2
  /\ ~PathClear(solver.startGrid, solver.seq[2][1], solver.seq[2][2])

\* C3: solver termination: a run cannot go on for ever, because every step of it
\* either returns or dequeues one more node, and the number of nodes dequeued
\* never exceeds cap + 1.
C3_SolverTerminates ==
  [][/\ solver'.states <= solver'.maxStates + 1
     /\ (solver'.returned \/ solver'.states = solver.states + 1)]_vars

\* C3's case: a run cut off by the cap, having dequeued exactly cap + 1 nodes
C3_Witness ==
  /\ solver.returned /\ ~solver.found
  /\ solver.maxStates >= 1
  /\ solver.states = solver.maxStates + 1
  /\ Len(solver.queue) > 0

\* no head of g has a clear path
NoHeadCanExit(g) ==
  \A r \in DOMAIN g : \A c \in DOMAIN g[r] : IsHeadAt(g, r, c) => ~PathClear(g, r, c)

\* C8: on a non-empty grid in which no head can exit, the solver with any cap >= 1
\* returns not-found.
C8_StuckGridNotFound ==
  (/\ solver.returned
   /\ solver.maxStates >= 1
   /\ \E r \in DOMAIN solver.startGrid : \E c \in DOMAIN solver.startGrid[r] : solver.startGrid[r][c] # Null
   /\ NoHeadCanExit(solver.startGrid))
    => ~solver.found

\* C8's case: length-1 pieces at (0,0) pointing Right and (0,1) pointing Left
C8_Witness ==
  /\ solver.returned /\ ~solver.found
  /\ solver.maxStates >= 1
  /\ solver.startGrid[0][0] = [id |-> 1, dir |-> "R", len |-> 1, head |-> TRUE]
  /\ solver.startGrid[0][1] = [id |-> 2, dir |-> "L", len |-> 1, head |-> TRUE]
  /\ NoHeadCanExit(solver.startGrid)
  /\ solver.states = 1

\* the piece ids of g
PieceIds(g) == {IdAt(g, r, c) : r \in DOMAIN g, c \in DOMAIN g[0]} \ {0}

\* the cells of piece id
PieceCells(g, id) == {p \in (DOMAIN g) \X (DOMAIN g[0]) : IdAt(g, p[1], p[2]) = id}

\* S is one straight contiguous run: a row or a column interval
StraightRun(S) ==
  \/ \E r \in {p[1] : p \in S} :
       /\ \A p \in S : p[1] = r
       /\ \A x \in {p[2] : p \in S}, y \in {p[2] : p \in S} : \A z \in x..y : <<r, z>> \in S
  \/ \E c \in {p[2] : p \in S} :
       /\ \A p \in S : p[2] = c
       /\ \A x \in {p[1] : p \in S}, y \in {p[1] : p \in S} : \A z \in x..y : <<z, c>> \in S

HasShape(g, rows, cols) ==
  /\ DOMAIN g = 0..(rows - 1)
  /\ \A r \in DOMAIN g : DOMAIN g[r] = 0..(cols - 1)

\* C4: generator validity: in every returned grid (accepted candidate or
\* fallback) the cells of each piece id lie in the rows x cols board, form one
\* straight contiguous run, each cell holds one segment, and exactly one cell of
\* the piece is its head.
C4_ReturnedPiecesValid ==
  GenReturned(gen) =>
    /\ HasShape(gen.ret, gen.a.rows, gen.a.cols)
    /\ \A id \in PieceIds(gen.ret) :
         /\ StraightRun(PieceCells(gen.ret, id))
         /\ Cardinality({p \in PieceCells(gen.ret, id) : gen.ret[p[1]][p[2]].head}) = 1

\* C4's case: an accepted candidate with a two-cell piece and another piece
C4_Witness ==
  /\ gen.pc = "return74"
  /\ Cardinality(PieceIds(gen.ret)) >= 2
  /\ \E id \in PieceIds(gen.ret) : Cardinality(PieceCells(gen.ret, id)) = 2

\* the board can be emptied by removing, one at a time, a piece whose head can exit
RECURSIVE CanClear(_)
CanClear(g) ==
  \/ \A r \in DOMAIN g : \A c \in DOMAIN g[r] : g[r][c] = Null
  \/ \E r \in DOMAIN g : \E c \in DOMAIN g[r] :
       /\ IsHeadAt(g, r, c)
       /\ PathClear(g, r, c)
       /\ CanClear(WithoutPiece(g, g[r][c].id))

\* C5: generator solvability: every returned grid can be cleared, the solver
\* with the generator's cap finds a Solution for it, and for the fallback that
\* Solution is the single move (0, 0).
C5_ReturnedSolvable ==
  GenReturned(gen) =>
    /\ CanClear(gen.ret)
    /\ findSolutionLimited(gen.ret, GenMaxStates).found
    /\ gen.pc = "return84" => findSolutionLimited(gen.ret, GenMaxStates).seq = <<<<0, 0>>>>

\* C5's case: the fallback, returned after candidates with pieces were rejected
C5_Witness ==
  /\ gen.pc = "return84"
  /\ gen.a.maxAttempts >= 2
  /\ gen.idCounter > 1
  /\ gen.ret[0][0] # Null

\* C6: the generator always ends with a rows x cols grid: every run segment
\* returns or reaches the await with a larger attempt number; a candidate is
\* returned only from one of the first maxAttempts attempts and only if it has an
\* arrow, the fallback exactly when maxAttempts candidates were rejected, and with
\* density 0 nothing but the fallback is returned.
C6_GeneratorTerminates ==
  [][/\ gen'.attempt <= gen'.a.maxAttempts
     /\ gen'.pc \in {"await76", "return74", "return84"}
     /\ gen'.pc = "await76" => (gen'.attempt < gen'.a.maxAttempts
                                 /\ (gen.pc = "await76" => gen'.attempt > gen.attempt))
     /\ gen'.pc = "return74" => (gen'.attempt < gen'.a.maxAttempts
                                  /\ PieceIds(gen'.ret) # {}
                                  /\ gen'.a.density > 0)
     /\ gen'.pc = "return84" => (gen'.attempt = gen'.a.maxAttempts /\ gen'.ret = Fallback(gen'.a))
     /\ GenReturned(gen') => HasShape(gen'.ret, gen'.a.rows, gen'.a.cols)]_vars

\* C6's case: density 0, every candidate empty, the fallback after maxAttempts attempts
C6_Witness ==
  /\ gen.pc = "return84"
  /\ gen.a.density = 0
  /\ gen.a.maxAttempts = MaxAttempts
  /\ gen.attempt = MaxAttempts
  /\ gen.idCounter = 1

\* C7: a click or a hint request leaves the retained initial grid as it was,
\* and resetLevel leaves it as it was and makes the working grid hold in every
\* cell the piece id (or empty) the initial grid holds there
C7_ResetRestoresInitial ==
  [][/\ initialGrid' = initialGrid
          \/ ~((\E r \in DOMAIN grid : \E c \in DOMAIN grid[r] : HandleClick(r, c)) \/ GiveHint)
     /\ ResetLevel
          => /\ initialGrid' = initialGrid
             /\ DOMAIN grid' = DOMAIN initialGrid
             /\ \A r \in DOMAIN initialGrid :
                  /\ DOMAIN grid'[r] = DOMAIN initialGrid[r]
                  /\ \A c \in DOMAIN initialGrid[r] : IdAt(grid', r, c) = IdAt(initialGrid, r, c)]_vars

\* a level was generated, pieces were clicked away, and resetLevel ran
C7_Witness ==
  /\ last.op = "resetLevel" /\ last.flag
  /\ hasArrow(initialGrid)
  /\ \E r \in DOMAIN grid : \E c \in DOMAIN grid[r] : IdAt(grid, r, c) = 2

\* C11: in every returned grid (accepted candidate or fallback) each piece
\* occupies exactly as many cells as the len its segments store, and all the
\* segments of one piece carry the same dir and len.
C11_PieceCellsEqualLen ==
  GenReturned(gen) =>
    \A id \in PieceIds(gen.ret) : \A p \in PieceCells(gen.ret, id) :
      /\ gen.ret[p[1]][p[2]].len = Cardinality(PieceCells(gen.ret, id))
      /\ \A q \in PieceCells(gen.ret, id) :
           /\ gen.ret[q[1]][q[2]].dir = gen.ret[p[1]][p[2]].dir
           /\ gen.ret[q[1]][q[2]].len = gen.ret[p[1]][p[2]].len

\* C12: piece ids are never reused: every piece of a level that a generator
\* call returns has an id greater than every id of the level published before
\* it, and not below the counter the call had reached at its last await (the
\* ids below that counter were issued to earlier candidates of the call).
C12_IdsNeverReused ==
  [][((MountEffect \/ NewRandom \/ GenTimeout) /\ ~generating') =>
       \A id \in PieceIds(initialGrid') :
         /\ \A old \in PieceIds(initialGrid) : id > old
         /\ gen.pc = "await76" => id >= gen.idCounter]_vars

\* C13: at most one level generation is in progress: a generator call (from the
\* mount effect or from newRandom) starts only when no call is in progress and
\* the generating flag is clear, and the flag is set exactly while a call is
\* waiting at its yield.
C13_OneGenerationAtATime ==
  [][/\ (gen.pc = "idle" /\ ~generating) \/ ~(MountEffect \/ NewRandom)
     /\ generating' = (gen'.pc = "await76")]_vars

\* a call started by newRandom waits at its yield, and a click was handled meanwhile
C13_Witness ==
  /\ generating
  /\ gen.pc = "await76"
  /\ genThen = "newRandom"
  /\ last.op = "handleClick"

\* the grids that removals of pieces whose head can exit lead to from g, g included
RECURSIVE Patterns(_)
Patterns(g) ==
  {g} \cup UNION {Patterns(WithoutPiece(g, g[p[1]][p[2]].id)) :
                    p \in {q \in (DOMAIN g) \X (DOMAIN g[0]) :
                             IsHeadAt(g, q[1], q[2]) /\ PathClear(g, q[1], q[2])}}

\* C14: the solver returns a Solution exactly when the node it dequeues is the
\* all-empty grid and is one of the first maxStates nodes dequeued from the FIFO
\* queue; it returns not-found only when the queue is empty or the
\* (maxStates+1)-th node is dequeued; so with a cap of at least the number of
\* reachable occupancy patterns it returns a Solution for every start grid that
\* can be cleared.
C14_SolverCompleteWithinCap ==
  [][(~solver.returned /\ solver'.returned) =>
       /\ solver'.found = (/\ Len(solver.queue) > 0
                           /\ solver.states < solver.maxStates
                           /\ \A r \in DOMAIN solver.startGrid : \A c \in DOMAIN solver.startGrid[r] :
                                Head(solver.queue).grid[r][c] = Null)
       /\ ~solver'.found => (Len(solver.queue) = 0 \/ solver'.states = solver.maxStates + 1)
       /\ (CanClear(solver.startGrid)
             /\ solver.maxStates >= Cardinality(Patterns(solver.startGrid))) => solver'.found]_vars

\* C14's case: two pieces that can leave in either order, and a cap equal to the
\* number of reachable patterns: the empty grid is the last node the cap allows
C14_Witness ==
  /\ solver.returned /\ solver.found
  /\ Cardinality(Patterns(solver.startGrid)) = 4
  /\ solver.maxStates = 4
  /\ solver.states = 4

\* the occupancy pattern of g: the piece id (0 for empty) at every cell
IdPattern(g) == [r \in DOMAIN g |-> [c \in DOMAIN g[r] |-> IdAt(g, r, c)]]

\* C15: search deduplication: at every point of a run the key of every queued
\* grid is in visited, no two queued nodes have the same occupancy pattern, and
\* the keys in visited are as many as the nodes enqueued so far (those dequeued
\* plus those queued), so no pattern is enqueued, dequeued or expanded twice.
C15_SearchDeduplicates ==
  /\ \A i \in 1..Len(solver.queue) : serializeGrid(solver.queue[i].grid) \in solver.visited
  /\ \A i \in 1..Len(solver.queue) : \A j \in 1..Len(solver.queue) :
       IdPattern(solver.queue[i].grid) = IdPattern(solver.queue[j].grid) => i = j
  /\ Cardinality(solver.visited) = solver.states + Len(solver.queue)

\* C15's case: two pieces that can leave in either order; both one-piece grids
\* were expanded, and the empty grid they both lead to is queued once
C15_Witness ==
  /\ ~solver.returned
  /\ Cardinality(Patterns(solver.startGrid)) = 4
  /\ solver.states = 3
  /\ Len(solver.queue) = 1
  /\ \A r \in DOMAIN solver.startGrid : \A c \in DOMAIN solver.startGrid[r] :
       solver.queue[1].grid[r][c] = Null

\* C16: in every returned grid (accepted candidate or fallback) the head of each
\* piece is its leading segment: the head lies ahead of every other segment of
\* the piece in the piece's direction, and no segment of the piece lies between
\* the head and the exit edge.
C16_HeadIsLeadingSegment ==
  GenReturned(gen) =>
    \A id \in PieceIds(gen.ret) : \A h \in PieceCells(gen.ret, id) : \A q \in PieceCells(gen.ret, id) :
      (gen.ret[h[1]][h[2]].head /\ q # h) =>
        /\ h \in CellsAhead(gen.ret, q[1], q[2], gen.ret[h[1]][h[2]].dir)
        /\ q \notin CellsAhead(gen.ret, h[1], h[2], gen.ret[h[1]][h[2]].dir)

\* the cells of g that hold a head whose path is clear
FreeHeads(g) ==
  {p \in (DOMAIN g) \X (DOMAIN g[0]) : IsHeadAt(g, p[1], p[2]) /\ PathClear(g, p[1], p[2])}

\* p comes before q in row-major order, or is q
RowMajorLeq(p, q) == p[1] < q[1] \/ (p[1] = q[1] /\ p[2] <= q[2])

\* C17: giveHint marks as the hint the first cell in row-major order that holds a
\* head that can exit on the working grid; when there is none it leaves no hint
\* cell and raises the no-move signal; either way the working grid and the
\* initial grid stay as they were.
C17_GiveHintFirstFreeHead ==
  [][~GiveHint \/
       /\ grid' = grid
       /\ initialGrid' = initialGrid
       /\ IF FreeHeads(grid) = {}
          THEN hintCell' = NoHint /\ last'.flag
          ELSE /\ hintCell' \in FreeHeads(grid)
               /\ \A q \in FreeHeads(grid) : RowMajorLeq(hintCell', q)
               /\ ~last'.flag]_vars

\* C17's case: the hint passed over the blocked head at (0, 0) and marked (0, 1)
C17_Witness ==
  /\ last.op = "giveHint" /\ ~last.flag
  /\ hintCell = <<0, 1>>
  /\ IsHeadAt(grid, 0, 0)
  /\ ~PathClear(grid, 0, 0)

\* C18: handleClick(r, c) changes the working grid only when (r, c) holds a head
\* that can exit, and then it empties exactly the cells that carry that head's
\* piece id and leaves every other cell as it was; a click on an empty cell, on a
\* non-head segment or on a blocked head leaves the working grid as it was.
C18_ClickRemovesExactlyThePiece ==
  [][\A r \in DOMAIN grid : \A c \in DOMAIN grid[r] :
       \* (every handleClick step records itself in last: the test saves evaluating
       \* the handler on the steps of the other handlers)
       last'.op # "handleClick" \/ ~HandleClick(r, c) \/
         IF IsHeadAt(grid, r, c) /\ PathClear(grid, r, c)
         THEN /\ DOMAIN grid' = DOMAIN grid
              /\ \A rr \in DOMAIN grid :
                   /\ DOMAIN grid'[rr] = DOMAIN grid[rr]
                   /\ \A cc \in DOMAIN grid[rr] :
                        grid'[rr][cc] = IF IdAt(grid, rr, cc) = IdAt(grid, r, c) THEN Null ELSE grid[rr][cc]
         ELSE grid' = grid]_vars

\* C18's case: the one accepted click removed a two-cell piece and left another piece
C18_Witness ==
  /\ last.op = "handleClick" /\ last.flag
  /\ \E id \in PieceIds(initialGrid) :
       /\ Cardinality(PieceCells(initialGrid, id)) = 2
       /\ PieceIds(grid) = PieceIds(initialGrid) \ {id}
  /\ PieceIds(grid) # {}

\* C19: no dead ends: every working grid the component reaches (by accepted
\* clicks on a published level) is all-empty or holds a head that can exit; the
\* removal an accepted click makes never blocks another head that could exit;
\* and giveHint's scan finds a head on every board that is not all-empty.
C19_NoDeadEnds ==
  /\ PieceIds(grid) = {} \/ FreeHeads(grid) # {}
  /\ \A q \in FreeHeads(grid) : \A p \in FreeHeads(grid) :
       IdAt(grid, p[1], p[2]) # IdAt(grid, q[1], q[2])
         => p \in FreeHeads(ClickRemove(grid, IdAt(grid, q[1], q[2])))
  /\ Len(HintScan(grid)) = 0 => PieceIds(grid) = {}

\* C19's case: after an accepted click pieces remain, and a head that was
\* blocked when the level was published can exit
C19_Witness ==
  /\ last.op = "handleClick" /\ last.flag
  /\ PieceIds(grid) # {}
  /\ \E p \in FreeHeads(grid) : ~PathClear(initialGrid, p[1], p[2])

\* every piece id of g has exactly one head
OneHeadPerPiece(g) ==
  \A id \in PieceIds(g) : Cardinality({p \in PieceCells(g, id) : g[p[1]][p[2]].head}) = 1

\* C20: for a start grid in which every piece id has exactly one head, a returned
\* Solution has as many moves as the start grid has piece ids, and its moves name
\* heads of pairwise distinct pieces of the start grid; for an all-empty start
\* grid and a cap >= 1 the returned Solution is the empty sequence.
C20_SolutionLengthIsPieceCount ==
  /\ (solver.returned /\ solver.found /\ OneHeadPerPiece(solver.startGrid)) =>
       /\ Len(solver.seq) = Cardinality(PieceIds(solver.startGrid))
       /\ \A i \in 1..Len(solver.seq) :
            /\ IsHeadAt(solver.startGrid, solver.seq[i][1], solver.seq[i][2])
            /\ \A j \in 1..Len(solver.seq) :
                 IdAt(solver.startGrid, solver.seq[i][1], solver.seq[i][2])
                   = IdAt(solver.startGrid, solver.seq[j][1], solver.seq[j][2]) => i = j
  /\ (solver.returned /\ PieceIds(solver.startGrid) = {} /\ solver.maxStates >= 1) =>
       (solver.found /\ solver.seq = <<>>)

\* C20's case: a Solution of two moves for a two-cell piece and a second piece
C20_Witness ==
  /\ solver.returned /\ solver.found
  /\ OneHeadPerPiece(solver.startGrid)
  /\ Len(solver.seq) = 2
  /\ \E id \in PieceIds(solver.startGrid) : Cardinality(PieceCells(solver.startGrid, id)) = 2

====
